---- MODULE Spec2Model ----
(***************************************************************************)
(* A model of python_sql_engine.py: the WHERE filter, the two inner joins  *)
(* (hash join and sort-merge join), GROUP BY staging and ORDER BY.         *)
(*                                                                         *)
(* A row is a sequence of values, a table a sequence of rows, a schema a   *)
(* sequence of column names (the namedtuple's _fields).  Values are small  *)
(* naturals: the code only compares them with ==, < and >.  Cursors of     *)
(* merge_join are 0-based as in the source; row k of the source is         *)
(* element k + 1 of the TLA+ sequence.                                     *)
(***************************************************************************)
EXTENDS Integers, Sequences, FiniteSets, Bags, TLC

VARIABLES
    left, right,                \* the tables handed to a join
    left_cols, right_cols,      \* left[0]._fields, right[0]._fields
    left_join_key, right_join_key,
    hash_status, hash_cols, hash_results,   \* outcome of inner_hash_join
    pc,                         \* position inside merge_join
    sorted_left, sorted_right,  \* merge_join's rebinding of left and right
    i, j, temp_i, temp_j,
    left_key_value, right_key_value,
    merge_status, merge_cols, merge_results,
    csv_file, filters,          \* input of read_with_where_filter
    filter_status, filter_results,
    data, data_cols,            \* the list handed to group_by or order_by
    group_key, aggregation_cols,
    group_status, grouped_data, \* outcome of group_by
    orders,
    order_status, order_results \* the list after order_by has sorted it

join_in == <<left, right, left_cols, right_cols, left_join_key, right_join_key>>
hash_out == <<hash_status, hash_cols, hash_results>>
merge_loc == <<sorted_left, sorted_right, i, j, temp_i, temp_j,
               left_key_value, right_key_value>>
merge_out == <<merge_status, merge_cols, merge_results>>
filter_vars == <<csv_file, filters, filter_status, filter_results>>
group_vars == <<group_key, aggregation_cols, group_status, grouped_data>>
order_vars == <<orders, order_status, order_results>>
data_vars == <<data, data_cols>>
non_join == <<filter_vars, data_vars, group_vars, order_vars>>
vars == <<join_in, hash_out, pc, merge_loc, merge_out, filter_vars,
          data_vars, group_vars, order_vars>>

----------------------------------------------------------------------------
(* Bounds of the model. *)

MaxVal == 2
MaxLeft == 2
MaxRight == 3
MaxSchemaRows == 1
MaxFileRows == 2
MaxFilters == 2
MaxGroupRows == 3
MaxAggCols == 2
MaxOrderRows == 3
MaxOrders == 2

Values == 1..MaxVal

\* The schemas of the joined tables: a value column and a row-number column.
LeftSchema == <<"user_id", "order_id">>
RightSchema == <<"uid", "member_id">>
NCols == Len(LeftSchema)

\* The column names a csv header is drawn from.
HeaderNames == {"user_id", "country"}

----------------------------------------------------------------------------
(* Sequence helpers. *)

Range(s) == {s[k] : k \in DOMAIN s}

RECURSIVE Flatten(_)
Flatten(ss) == IF ss = <<>> THEN <<>> ELSE Head(ss) \o Flatten(Tail(ss))

Reverse(s) == [k \in 1..Len(s) |-> s[Len(s) + 1 - k]]

RECURSIVE BagOfSeq(_)
BagOfSeq(s) == IF s = <<>> THEN EmptyBag
               ELSE BagOfSeq(Tail(s)) (+) SetToBag({Head(s)})

----------------------------------------------------------------------------
(* namedtuple: field access by name, and the validation of field names.    *)

\* the position of a field name in a schema (0 if absent)
FieldIndex(cols, name) ==
    IF \E k \in DOMAIN cols : cols[k] = name
    THEN CHOOSE k \in DOMAIN cols : cols[k] = name
    ELSE 0

\* getattr(row, name) for a row of schema cols
getattr(row, cols, name) == row[FieldIndex(cols, name)]

\* the name namedtuple(rename=True) gives the field at 0-based position k
PositionalName(k) == "_" \o ToString(k)

\* name.startswith("_"), over the names the model can build
startswith_underscore(name) ==
    \E k \in 0..(NCols - 1), s \in {"", "_left", "_right"} :
        name = PositionalName(k) \o s

\* namedtuple(typename, field_names, rename=True)._fields
RenamedFields(field_names) ==
    [k \in DOMAIN field_names |->
        IF \/ startswith_underscore(field_names[k])
           \/ \E m \in 1..(k - 1) : field_names[m] = field_names[k]
        THEN PositionalName(k - 1)
        ELSE field_names[k]]

\* namedtuple(typename, field_names) without rename raises ValueError on a
\* field name that starts with an underscore or occurs twice
namedtuple_ok(field_names) ==
    /\ \A k \in DOMAIN field_names : ~startswith_underscore(field_names[k])
    /\ \A k, m \in DOMAIN field_names :
          field_names[k] = field_names[m] => k = m

----------------------------------------------------------------------------
(* concat_col_names_add_suffix *)

concat_col_names_add_suffix(lcols, rcols, lkey, rkey) ==
    LET left_cols_key_suffix ==
            [k \in DOMAIN lcols |->
                IF lcols[k] = lkey THEN lcols[k] \o "_left" ELSE lcols[k]]
        right_cols_key_suffix ==
            [k \in DOMAIN rcols |->
                IF rcols[k] = rkey THEN rcols[k] \o "_right" ELSE rcols[k]]
    IN  left_cols_key_suffix \o right_cols_key_suffix

\* the part of both joins that derives results_entity: indexing an empty
\* table raises IndexError, a rejected merged schema raises ValueError
results_entity(l, r, lcols, rcols, lkey, rkey) ==
    LET results_cols == concat_col_names_add_suffix(lcols, rcols, lkey, rkey)
    IN  IF l = <<>> \/ r = <<>> THEN [status |-> "IndexError", cols |-> <<>>]
        ELSE IF ~namedtuple_ok(results_cols)
             THEN [status |-> "ValueError", cols |-> <<>>]
             ELSE [status |-> "ok", cols |-> results_cols]

----------------------------------------------------------------------------
(* inner_hash_join *)

\* itertools.groupby(rows, key): the maximal runs of consecutive rows with
\* equal key, as a sequence of [key, value] groups
RECURSIVE groupby(_, _, _)
groupby(rows, cols, key) ==
    IF rows = <<>> THEN <<>>
    ELSE LET k == getattr(Head(rows), cols, key)
             rest == groupby(Tail(rows), cols, key)
         IN  IF rest # <<>> /\ rest[1].key = k
             THEN <<[key |-> k, value |-> <<Head(rows)>> \o rest[1].value]>>
                  \o Tail(rest)
             ELSE <<[key |-> k, value |-> <<Head(rows)>>]>> \o rest

\* the dict comprehension over groupby: a later group replaces an earlier
\* group of the same key
right_index_of(r, rcols, rkey) ==
    LET groups == groupby(r, rcols, rkey)
        last(k) == CHOOSE n \in DOMAIN groups :
                      /\ groups[n].key = k
                      /\ \A m \in DOMAIN groups : groups[m].key = k => m <= n
    IN  [k \in {groups[n].key : n \in DOMAIN groups} |-> groups[last(k)].value]

\* right_index.get(getattr(row_left, left_join_key)); None is the empty list
right_matches_of(row_left, lcols, lkey, right_index) ==
    LET k == getattr(row_left, lcols, lkey)
    IN  IF k \in DOMAIN right_index THEN right_index[k] ELSE <<>>

\* a probe that walks the bucket backwards
probe_reversed(row_left, right_matches) ==
    [n \in DOMAIN right_matches |->
        row_left \o right_matches[Len(right_matches) + 1 - n]]

\* the list extended onto results for one left row
probe(row_left, right_matches) ==
    [n \in DOMAIN right_matches |-> row_left \o right_matches[n]]

inner_hash_join(l, r, lcols, rcols, lkey, rkey) ==
    LET right_index == right_index_of(r, rcols, rkey)
        entity == results_entity(l, r, lcols, rcols, lkey, rkey)
    IN  IF entity.status # "ok"
        THEN [status |-> entity.status, cols |-> <<>>, results |-> <<>>]
        ELSE [status |-> "ok", cols |-> entity.cols,
              results |-> Flatten([n \in DOMAIN l |->
                  probe(l[n], right_matches_of(l[n], lcols, lkey, right_index))])]

----------------------------------------------------------------------------
(* list.sort / sorted: a stable sort on a key, with CPython's reverse.     *)

\* insert p behind every element whose key is not greater (keeps stability)
InsertStable(srt, p) ==
    LET pos == Cardinality({n \in DOMAIN srt : srt[n][1] <= p[1]})
    IN  SubSeq(srt, 1, pos) \o <<p>> \o SubSeq(srt, pos + 1, Len(srt))

RECURSIVE SortPairs(_)
SortPairs(pairs) ==
    IF pairs = <<>> THEN <<>>
    ELSE InsertStable(SortPairs(SubSeq(pairs, 1, Len(pairs) - 1)),
                      pairs[Len(pairs)])

\* a descending sort that reverses an ascending one
SortReverse_unstable(pairs) == Reverse(SortPairs(pairs))

\* reverse=True reverses the list, sorts it stably and reverses it again
SortReverse(pairs) == Reverse(SortPairs(Reverse(pairs)))

\* rows sorted by the parallel sequence keys
list_sort(rows, keys, reverse) ==
    LET pairs == [n \in DOMAIN rows |-> <<keys[n], rows[n]>>]
        srt == IF reverse THEN SortReverse(pairs) ELSE SortPairs(pairs)
    IN  [n \in DOMAIN srt |-> srt[n][2]]

\* sorted(rows, key=lambda x: getattr(x, key))
sorted(rows, cols, key) ==
    list_sort(rows, [n \in DOMAIN rows |-> getattr(rows[n], cols, key)], FALSE)

----------------------------------------------------------------------------
(* Initial states. *)

\* the tables of at most maxlen rows <<value, row number>>
Tables(maxlen) ==
    UNION {{[k \in 1..n |-> <<vs[k], k>>] : vs \in [1..n -> Values]} :
           n \in 0..maxlen}

\* the schemas read_with_where_filter produces from a csv header
JoinSchemas == {RenamedFields(h) : h \in [1..NCols -> HeaderNames]}

JoinIdle ==
    /\ left = <<>> /\ right = <<>>
    /\ left_cols = <<>> /\ right_cols = <<>>
    /\ left_join_key = "" /\ right_join_key = ""
    /\ hash_status = "idle" /\ hash_cols = <<>> /\ hash_results = <<>>
    /\ pc = "idle"
    /\ merge_status = "idle" /\ merge_cols = <<>> /\ merge_results = <<>>

MergeLocalsInit ==
    /\ sorted_left = <<>> /\ sorted_right = <<>>
    /\ i = 0 /\ j = 0 /\ temp_i = 0 /\ temp_j = 0
    /\ left_key_value = 0 /\ right_key_value = 0

FilterIdle ==
    /\ csv_file = <<>> /\ filters = <<>>
    /\ filter_status = "idle" /\ filter_results = <<>>

GroupIdle ==
    /\ group_key = "" /\ aggregation_cols = <<>>
    /\ group_status = "idle" /\ grouped_data = <<>>

OrderIdle == orders = <<>> /\ order_status = "idle" /\ order_results = <<>>

DataIdle == data = <<>> /\ data_cols = <<>>

JoinStart ==
    /\ hash_status = "none" /\ hash_cols = <<>> /\ hash_results = <<>>
    /\ pc = "start"
    /\ merge_status = "none" /\ merge_cols = <<>> /\ merge_results = <<>>
    /\ MergeLocalsInit
    /\ FilterIdle /\ DataIdle /\ GroupIdle /\ OrderIdle

\* joins of tables of the fixed schemas, on any pair of key selectors
InitJoin ==
    /\ left \in Tables(MaxLeft)
    /\ right \in Tables(MaxRight)
    /\ left_cols = LeftSchema
    /\ right_cols = RightSchema
    /\ left_join_key \in Range(left_cols)
    /\ right_join_key \in Range(right_cols)
    /\ JoinStart

\* joins of small tables of any schemas a csv header can give
InitSchema ==
    /\ left \in Tables(MaxSchemaRows)
    /\ right \in Tables(MaxSchemaRows)
    /\ left_cols \in JoinSchemas
    /\ right_cols \in JoinSchemas
    /\ left_join_key \in Range(left_cols)
    /\ right_join_key \in Range(right_cols)
    /\ JoinStart

----------------------------------------------------------------------------
(* The joins as actions. *)

Call_inner_hash_join ==
    /\ hash_status = "none"
    /\ pc \in {"start", "done"}
    /\ LET r == inner_hash_join(left, right, left_cols, right_cols,
                                left_join_key, right_join_key)
       IN  /\ hash_status' = r.status
           /\ hash_cols' = r.cols
           /\ hash_results' = r.results
    /\ UNCHANGED <<join_in, pc, merge_loc, merge_out, non_join>>

\* lines 73-78: sort both tables, derive the merged schema
Call_merge_join ==
    /\ pc = "start"
    /\ sorted_left' = sorted(left, left_cols, left_join_key)
    /\ sorted_right' = sorted(right, right_cols, right_join_key)
    /\ i' = 0 /\ j' = 0
    /\ merge_results' = <<>>
    /\ LET entity == results_entity(left, right, left_cols, right_cols,
                                    left_join_key, right_join_key)
       IN  /\ merge_cols' = entity.cols
           /\ IF entity.status = "ok"
              THEN pc' = "while" /\ merge_status' = "running"
              ELSE pc' = "done" /\ merge_status' = entity.status
    /\ UNCHANGED <<join_in, hash_out, temp_i, temp_j, left_key_value,
                   right_key_value, non_join>>

\* the condition of the outer while loop
in_range == i < Len(sorted_left) /\ j < Len(sorted_right)

cur_left_key == getattr(sorted_left[i + 1], left_cols, left_join_key)
cur_right_key == getattr(sorted_right[j + 1], right_cols, right_join_key)

\* lines 82-83
MergeAdvanceLeft ==
    /\ pc = "while" /\ in_range
    /\ cur_left_key < cur_right_key
    /\ left_key_value' = cur_left_key
    /\ right_key_value' = cur_right_key
    /\ i' = i + 1
    /\ UNCHANGED <<join_in, hash_out, pc, sorted_left, sorted_right, j,
                   temp_i, temp_j, merge_out, non_join>>

\* lines 84-85
MergeAdvanceRight ==
    /\ pc = "while" /\ in_range
    /\ cur_left_key > cur_right_key
    /\ left_key_value' = cur_left_key
    /\ right_key_value' = cur_right_key
    /\ j' = j + 1
    /\ UNCHANGED <<join_in, hash_out, pc, sorted_left, sorted_right, i,
                   temp_i, temp_j, merge_out, non_join>>

\* lines 86-87: a matching block starts
MergeBlockEnter ==
    /\ pc = "while" /\ in_range
    /\ cur_left_key = cur_right_key
    /\ left_key_value' = cur_left_key
    /\ right_key_value' = cur_right_key
    /\ temp_i' = i /\ temp_j' = j
    /\ pc' = "inner_i"
    /\ UNCHANGED <<join_in, hash_out, sorted_left, sorted_right, i, j,
                   merge_out, non_join>>

\* the condition of the loop over the left rows of the block (line 88)
left_in_block ==
    /\ temp_i < Len(sorted_left)
    /\ getattr(sorted_left[temp_i + 1], left_cols, left_join_key) = left_key_value

\* the condition of the loop over the right rows of the block (line 90)
right_in_block ==
    /\ temp_j < Len(sorted_right)
    /\ getattr(sorted_right[temp_j + 1], right_cols, right_join_key) = right_key_value

\* a block scan that does not put the right cursor back
MergeBlockLeft_no_reset ==
    /\ pc = "inner_i" /\ left_in_block
    /\ pc' = "inner_j"
    /\ UNCHANGED <<join_in, hash_out, sorted_left, sorted_right, i, j, temp_i,
                   temp_j, left_key_value, right_key_value, merge_out,
                   non_join>>

\* lines 88-89: next left row of the block, right cursor back to the block start
MergeBlockLeft ==
    /\ pc = "inner_i" /\ left_in_block
    /\ temp_j' = j
    /\ pc' = "inner_j"
    /\ UNCHANGED <<join_in, hash_out, sorted_left, sorted_right, i, j, temp_i,
                   left_key_value, right_key_value, merge_out, non_join>>

\* lines 90-92: pair the left row with the next right row of the block
MergeBlockEmit ==
    /\ pc = "inner_j" /\ right_in_block
    /\ merge_results' = Append(merge_results,
                               sorted_left[temp_i + 1] \o sorted_right[temp_j + 1])
    /\ temp_j' = temp_j + 1
    /\ UNCHANGED <<join_in, hash_out, pc, sorted_left, sorted_right, i, j,
                   temp_i, left_key_value, right_key_value, merge_status,
                   merge_cols, non_join>>

\* line 93: the right rows of the block are exhausted for this left row
MergeBlockNextLeft ==
    /\ pc = "inner_j" /\ ~right_in_block
    /\ temp_i' = temp_i + 1
    /\ pc' = "inner_i"
    /\ UNCHANGED <<join_in, hash_out, sorted_left, sorted_right, i, j, temp_j,
                   left_key_value, right_key_value, merge_out, non_join>>

\* a block exit that moves only the left cursor
MergeBlockExit_left_only ==
    /\ pc = "inner_i" /\ ~left_in_block
    /\ i' = temp_i
    /\ pc' = "while"
    /\ UNCHANGED <<join_in, hash_out, sorted_left, sorted_right, j, temp_i,
                   temp_j, left_key_value, right_key_value, merge_out,
                   non_join>>

\* line 94: both cursors skip the block
MergeBlockExit ==
    /\ pc = "inner_i" /\ ~left_in_block
    /\ i' = temp_i /\ j' = temp_j
    /\ pc' = "while"
    /\ UNCHANGED <<join_in, hash_out, sorted_left, sorted_right, temp_i,
                   temp_j, left_key_value, right_key_value, merge_out,
                   non_join>>

\* line 95
MergeReturn ==
    /\ pc = "while" /\ ~in_range
    /\ pc' = "done"
    /\ merge_status' = "ok"
    /\ UNCHANGED <<join_in, hash_out, merge_loc, merge_cols, merge_results,
                   non_join>>

\* the steps of the while loop of merge_join
MergeLoopStep ==
    \/ MergeAdvanceLeft
    \/ MergeAdvanceRight
    \/ MergeBlockEnter
    \/ MergeBlockLeft
    \/ MergeBlockEmit
    \/ MergeBlockNextLeft
    \/ MergeBlockExit
    \/ MergeReturn

NextJoin == Call_inner_hash_join \/ Call_merge_join \/ MergeLoopStep

SpecJoin == InitJoin /\ [][NextJoin]_vars
SpecSchema == InitSchema /\ [][NextJoin]_vars
\* the program is single-threaded: once merge_join has entered its loop the
\* loop keeps taking steps
SpecJoinFair == InitJoin /\ [][NextJoin]_vars /\ WF_vars(MergeLoopStep)

----------------------------------------------------------------------------
(* read_with_where_filter.  csv_file is what csv.reader yields: the header *)
(* row, then the data rows.  filters is the dict as the sequence of its    *)
(* (key, value) items in iteration order.                                  *)

\* any() in place of all(): one met filter keeps the row
RECURSIVE any_filters(_, _, _)
any_filters(row, fields, fs) ==
    IF fs = <<>> THEN "False"
    ELSE IF FieldIndex(fields, fs[1][1]) = 0 THEN "AttributeError"
    ELSE IF getattr(row, fields, fs[1][1]) = fs[1][2]
         THEN "True"
         ELSE any_filters(row, fields, Tail(fs))

\* all(getattr(row, key) == value for key, value in filters.items()): the
\* generator stops at the first False; getattr of an unknown name raises
RECURSIVE all_filters(_, _, _)
all_filters(row, fields, fs) ==
    IF fs = <<>> THEN "True"
    ELSE IF FieldIndex(fields, fs[1][1]) = 0 THEN "AttributeError"
    ELSE IF getattr(row, fields, fs[1][1]) = fs[1][2]
         THEN all_filters(row, fields, Tail(fs))
         ELSE "False"

\* the loop over the data rows: [status, results]
RECURSIVE filter_rows(_, _, _)
filter_rows(rows, fields, fs) ==
    IF rows = <<>> THEN [status |-> "ok", results |-> <<>>]
    ELSE LET keep == all_filters(Head(rows), fields, fs)
             rest == filter_rows(Tail(rows), fields, fs)
         IN  IF keep = "AttributeError"
             THEN [status |-> "AttributeError", results |-> <<>>]
             ELSE IF rest.status # "ok" THEN rest
             ELSE [status |-> "ok",
                   results |-> IF keep = "True"
                               THEN <<Head(rows)>> \o rest.results
                               ELSE rest.results]

read_with_where_filter(file, fs) ==
    IF file = <<>> THEN [status |-> "StopIteration", results |-> <<>>]
    ELSE filter_rows(Tail(file), RenamedFields(Head(file)), fs)

\* the rows of csv files and of the lists handed to group_by
FreeRows == [1..NCols -> Values]

FreeTables(maxlen) == UNION {[1..n -> FreeRows] : n \in 0..maxlen}

\* the names a filter can ask for
FilterNames == HeaderNames \cup {PositionalName(k) : k \in 1..(NCols - 1)}

\* the dicts of at most maxlen items
Dicts(maxlen) ==
    {d \in UNION {[1..n -> FilterNames \X Values] : n \in 0..maxlen} :
        \A a, b \in DOMAIN d : d[a][1] = d[b][1] => a = b}

InitFilter ==
    /\ csv_file \in {<<>>} \cup
          {<<h>> \o rows : h \in [1..NCols -> HeaderNames],
                           rows \in FreeTables(MaxFileRows)}
    /\ filters \in Dicts(MaxFilters)
    /\ filter_status = "none" /\ filter_results = <<>>
    /\ JoinIdle /\ MergeLocalsInit /\ DataIdle /\ GroupIdle /\ OrderIdle

Call_read_with_where_filter ==
    /\ filter_status = "none"
    /\ LET r == read_with_where_filter(csv_file, filters)
       IN  /\ filter_status' = r.status
           /\ filter_results' = r.results
    /\ UNCHANGED <<join_in, hash_out, pc, merge_loc, merge_out, csv_file,
                   filters, data_vars, group_vars, order_vars>>

SpecFilter == InitFilter /\ [][Call_read_with_where_filter]_vars

----------------------------------------------------------------------------
(* group_by.  grouped_data is the defaultdict as a function on its keys.   *)

\* [getattr(row, col) for col in aggregation_cols]
project(row, cols, aggs) == [n \in DOMAIN aggs |-> getattr(row, cols, aggs[n])]

\* a group that keeps only the latest row
group_overwrite(grouped, key, member) ==
    [k \in DOMAIN grouped \cup {key} |->
        IF k = key THEN <<member>> ELSE grouped[k]]

\* grouped_data[key].append(member); a missing key starts as the empty list
group_append(grouped, key, member) ==
    [k \in DOMAIN grouped \cup {key} |->
        IF k = key
        THEN (IF key \in DOMAIN grouped THEN grouped[key] ELSE <<>>)
             \o <<member>>
        ELSE grouped[k]]

RECURSIVE group_by(_, _, _, _)
group_by(rows, cols, gkey, aggs) ==
    IF rows = <<>> THEN <<>>
    ELSE LET row == rows[Len(rows)]
         IN  group_append(group_by(SubSeq(rows, 1, Len(rows) - 1), cols, gkey, aggs),
                          getattr(row, cols, gkey), project(row, cols, aggs))

InitGroup ==
    /\ data \in FreeTables(MaxGroupRows)
    /\ data_cols = LeftSchema
    /\ group_key \in Range(data_cols)
    /\ aggregation_cols \in
          UNION {[1..n -> Range(data_cols)] : n \in 1..MaxAggCols}
    /\ group_status = "none" /\ grouped_data = <<>>
    /\ JoinIdle /\ MergeLocalsInit /\ FilterIdle /\ OrderIdle

Call_group_by ==
    /\ group_status = "none"
    /\ grouped_data' = group_by(data, data_cols, group_key, aggregation_cols)
    /\ group_status' = "ok"
    /\ UNCHANGED <<join_in, hash_out, pc, merge_loc, merge_out, filter_vars,
                   data_vars, group_key, aggregation_cols, order_vars>>

SpecGroup == InitGroup /\ [][Call_group_by]_vars

----------------------------------------------------------------------------
(* order_by.  Column indexes are 0-based as in the source.  A row of the   *)
(* list carries its original position behind its NCols value columns.      *)

\* the passes of the loop over orders[::-1], last order first
RECURSIVE order_by(_, _)
order_by(rows, ords) ==
    IF ords = <<>> THEN rows
    ELSE LET index == ords[Len(ords)][1]
             order == ords[Len(ords)][2]
             pass == list_sort(rows,
                               [n \in DOMAIN rows |-> rows[n][index + 1]],
                               order = "DESC")
         IN  order_by(pass, SubSeq(ords, 1, Len(ords) - 1))

OrderTables(maxlen) ==
    UNION {{[k \in 1..n |-> vs[k] \o <<k>>] : vs \in [1..n -> FreeRows]} :
           n \in 0..maxlen}

OrderSpecs(maxlen) ==
    UNION {[1..n -> (0..(NCols - 1)) \X {"ASC", "DESC"}] : n \in 0..maxlen}

InitOrder ==
    /\ data \in OrderTables(MaxOrderRows)
    /\ data_cols = <<>>
    /\ orders \in OrderSpecs(MaxOrders)
    /\ order_status = "none" /\ order_results = <<>>
    /\ JoinIdle /\ MergeLocalsInit /\ FilterIdle /\ GroupIdle

Call_order_by ==
    /\ order_status = "none"
    /\ order_results' = order_by(data, orders)
    /\ order_status' = "ok"
    /\ UNCHANGED <<join_in, hash_out, pc, merge_loc, merge_out, filter_vars,
                   data_vars, group_vars, orders>>

SpecOrder == InitOrder /\ [][Call_order_by]_vars

----------------------------------------------------------------------------
(* What an inner join is: the pairs of rows with equal join-key values.    *)

left_key(a) == getattr(left[a], left_cols, left_join_key)
right_key(b) == getattr(right[b], right_cols, right_join_key)

MatchPairs ==
    {p \in (DOMAIN left) \X (DOMAIN right) : left_key(p[1]) = right_key(p[2])}

\* the sum, over the left rows, of the number of right rows sharing the key
RECURSIVE SumMatches(_)
SumMatches(n) ==
    IF n = 0 THEN 0
    ELSE SumMatches(n - 1)
         + Cardinality({b \in DOMAIN right : right_key(b) = left_key(n)})

MatchCount == SumMatches(Len(left))

\* the joined rows, as a bag: one per matching pair
RECURSIVE BagOfPairs(_)
BagOfPairs(ps) ==
    IF ps = {} THEN EmptyBag
    ELSE LET p == CHOOSE q \in ps : TRUE
         IN  BagOfPairs(ps \ {p}) (+) SetToBag({left[p[1]] \o right[p[2]]})

NonEmptyJoin == left # <<>> /\ right # <<>>
HashReturned == hash_status \notin {"none", "idle"}
MergeReturned == pc = "done"

\* the row numbers of the left and of the right row of a joined row
left_row_of(row) == row[NCols]
right_row_of(row) == row[NCols + NCols]

----------------------------------------------------------------------------
(* Claims about the joins. *)

\* C1: for non-empty tables, also when equal right keys are not adjacent,
\* inner_hash_join and merge_join return the same multiset of joined rows.
C1_JoinEquivalence ==
    (NonEmptyJoin /\ HashReturned /\ MergeReturned) =>
        /\ hash_status = "ok" /\ merge_status = "ok"
        /\ BagOfSeq(hash_results) = BagOfSeq(merge_results)

\* C2: for non-empty tables in any row order, inner_hash_join emits exactly
\* one row per pair of a left and a right row with equal keys; the row count
\* is the sum over the left rows of the number of right rows sharing the key.
C2_HashCardinality ==
    (NonEmptyJoin /\ HashReturned) =>
        /\ hash_status = "ok"
        /\ BagOfSeq(hash_results) = BagOfPairs(MatchPairs)
        /\ Len(hash_results) = MatchCount

\* C3: for non-empty tables, merge_join emits for every matching block the
\* full cross-product of its left and right rows, each pair once, nothing
\* for unmatched keys; the row count is the sum over the left rows of the
\* number of right rows sharing the key.
C3_MergeBlockExpansion ==
    (NonEmptyJoin /\ MergeReturned) =>
        /\ merge_status = "ok"
        /\ BagOfSeq(merge_results) = BagOfPairs(MatchPairs)
        /\ Len(merge_results) = MatchCount

\* a many-to-many block next to an unmatched right row
C3_Witness ==
    /\ MergeReturned /\ merge_status = "ok"
    /\ Len(merge_results) = 4
    /\ \E b \in DOMAIN right : \A a \in DOMAIN left : left_key(a) # right_key(b)

\* C4: a join with an empty left or right table fails with EmptyTableJoin,
\* not by indexing past the end of the empty table.
C4_EmptyTableJoin ==
    ~NonEmptyJoin =>
        /\ HashReturned => hash_status = "EmptyTableJoin"
        /\ MergeReturned => merge_status = "EmptyTableJoin"

\* C5: for schemas of unique names and any key selectors the join succeeds;
\* its schema is the left columns followed by the right columns, the left
\* key renamed <name>_left, the right key <name>_right, every other column
\* under its own name, also one whose name is in both tables.
C5_SchemaMerge ==
    (NonEmptyJoin /\ HashReturned) =>
        /\ hash_status = "ok"
        /\ Len(hash_cols) = Len(left_cols) + Len(right_cols)
        /\ \A k \in DOMAIN left_cols :
              hash_cols[k] = IF left_cols[k] = left_join_key
                             THEN left_cols[k] \o "_left" ELSE left_cols[k]
        /\ \A k \in DOMAIN right_cols :
              hash_cols[Len(left_cols) + k] =
                  IF right_cols[k] = right_join_key
                  THEN right_cols[k] \o "_right" ELSE right_cols[k]

\* C9: the rows of inner_hash_join come in left-row order, the rows of one
\* left row in the order of their right rows in the right table; every row
\* pairs a left row with a right row of the same key, so a left row without
\* a match has no row.
C9_HashOutputOrder ==
    hash_status = "ok" =>
        /\ \A n \in DOMAIN hash_results :
              LET a == left_row_of(hash_results[n])
                  b == right_row_of(hash_results[n])
              IN  /\ a \in DOMAIN left /\ b \in DOMAIN right
                  /\ hash_results[n] = left[a] \o right[b]
                  /\ left_key(a) = right_key(b)
        /\ \A n, m \in DOMAIN hash_results :
              n < m =>
                  \/ left_row_of(hash_results[n]) < left_row_of(hash_results[m])
                  \/ /\ left_row_of(hash_results[n]) = left_row_of(hash_results[m])
                     /\ right_row_of(hash_results[n]) < right_row_of(hash_results[m])

\* one left row with several right rows, another left row with none
C9_Witness ==
    /\ hash_status = "ok"
    /\ Len(hash_results) >= 2
    /\ \E a \in DOMAIN left : \A b \in DOMAIN right : left_key(a) # right_key(b)
    /\ \E n \in DOMAIN hash_results :
          n < Len(hash_results)
          /\ left_row_of(hash_results[n]) = left_row_of(hash_results[n + 1])

\* the first cursor position behind the run of equal keys that starts at c
RunEnd(tbl, cols, key, c) ==
    CHOOSE e \in (c + 1)..Len(tbl) :
        /\ \A n \in (c + 1)..e :
              getattr(tbl[n], cols, key) = getattr(tbl[c + 1], cols, key)
        /\ e < Len(tbl) =>
              getattr(tbl[e + 1], cols, key) # getattr(tbl[c + 1], cols, key)

\* one step of merge_join, seen from the cursors
MergeCursorStep ==
    /\ i' >= i /\ j' >= j
    /\ (pc \in {"while", "inner_i"} /\ pc' = "while") => (i' > i \/ j' > j)
    /\ (pc = "inner_i" /\ pc' = "while") =>
          /\ i' = RunEnd(sorted_left, left_cols, left_join_key, i)
          /\ j' = RunEnd(sorted_right, right_cols, right_join_key, j)

MergeLoopExited ==
    /\ pc = "done"
    /\ i = Len(sorted_left) \/ j = Len(sorted_right)

\* C10: in merge_join neither cursor ever decreases, every iteration of the
\* outer loop increases i or j, after a matching block i and j are the first
\* positions behind the equal-key runs, and the loop ends with i = len(left)
\* or j = len(right).
C10_MergeProgress ==
    /\ [][MergeCursorStep]_vars
    /\ (pc = "while") ~> MergeLoopExited

\* the loop has ended after a block of several rows, with right rows left over
C10_Witness ==
    /\ MergeLoopExited /\ merge_status = "ok"
    /\ Len(merge_results) >= 2
    /\ i = Len(sorted_left) /\ j < Len(sorted_right) /\ j > 0

----------------------------------------------------------------------------
(* Claims about the filter, group_by and order_by. *)

FileFields == RenamedFields(Head(csv_file))
FileRows == Tail(csv_file)

\* every key of filters is a column of the file
FiltersNameColumns ==
    \A n \in DOMAIN filters : FieldIndex(FileFields, filters[n][1]) # 0

\* every named column of the row has its required value
RowMeets(row) ==
    \A n \in DOMAIN filters :
        getattr(row, FileFields, filters[n][1]) = filters[n][2]

\* C7: the filter returns exactly the rows, in their original order, whose
\* named columns all equal the required values; with the empty map it
\* returns all rows in unchanged order.
C7_Filter ==
    (filter_status \notin {"none", "idle"} /\ csv_file # <<>>
        /\ FiltersNameColumns) =>
        /\ filter_status = "ok"
        /\ filter_results = SelectSeq(FileRows, RowMeets)
        /\ filters = <<>> => filter_results = FileRows

\* two filters, a row kept and a row dropped
C7_Witness ==
    /\ filter_status = "ok" /\ FiltersNameColumns
    /\ Len(filters) = 2
    /\ filter_results # <<>>
    /\ Len(filter_results) < Len(FileRows)

group_key_of(n) == getattr(data[n], data_cols, group_key)

\* the positions, in input order, of the rows of group k
RECURSIVE PositionsOf(_, _)
PositionsOf(k, n) ==
    IF n = 0 THEN <<>>
    ELSE PositionsOf(k, n - 1) \o (IF group_key_of(n) = k THEN <<n>> ELSE <<>>)

RECURSIVE SumSizes(_)
SumSizes(keys) ==
    IF keys = {} THEN 0
    ELSE LET k == CHOOSE q \in keys : TRUE
         IN  Len(grouped_data[k]) + SumSizes(keys \ {k})

\* C8: the keys of the mapping are exactly the distinct group-key values;
\* each group holds one tuple of the requested columns, in the requested
\* order, per contributing row, in input row order; the group sizes sum to
\* the input row count.
C8_GroupBy ==
    group_status = "ok" =>
        /\ DOMAIN grouped_data = {group_key_of(n) : n \in DOMAIN data}
        /\ \A k \in DOMAIN grouped_data :
              LET pos == PositionsOf(k, Len(data))
              IN  /\ Len(grouped_data[k]) = Len(pos)
                  /\ \A m \in DOMAIN pos :
                        /\ Len(grouped_data[k][m]) = Len(aggregation_cols)
                        /\ \A c \in DOMAIN aggregation_cols :
                              grouped_data[k][m][c] =
                                  data[pos[m]][FieldIndex(data_cols,
                                                          aggregation_cols[c])]
        /\ SumSizes(DOMAIN grouped_data) = Len(data)

\* two groups, one of them of several rows, two different projected columns
C8_Witness ==
    /\ group_status = "ok"
    /\ Cardinality(DOMAIN grouped_data) >= 2
    /\ \E k \in DOMAIN grouped_data : Len(grouped_data[k]) >= 2
    /\ Len(aggregation_cols) = 2
    /\ aggregation_cols[1] # aggregation_cols[2]

\* the value of row r in the column of the n-th order
order_key(r, n) == r[orders[n][1] + 1]

original_position(r) == r[NCols + 1]

TiedOnEveryKey(r, s) == \A n \in DOMAIN orders : order_key(r, n) = order_key(s, n)

\* r belongs before s under the order specification
ComesBefore(r, s) ==
    IF TiedOnEveryKey(r, s) THEN original_position(r) < original_position(s)
    ELSE LET n == CHOOSE d \in DOMAIN orders :
                      /\ order_key(r, d) # order_key(s, d)
                      /\ \A e \in 1..(d - 1) : order_key(r, e) = order_key(s, e)
         IN  IF orders[n][2] = "DESC"
             THEN order_key(r, n) > order_key(s, n)
             ELSE order_key(r, n) < order_key(s, n)

\* C6: after order_by the list is a permutation of the input in which two
\* rows are ordered by the first key of the specification on which they
\* differ, in that key's direction, and rows tied on every key keep their
\* original relative order, also under DESC.
C6_OrderBy ==
    order_status = "ok" =>
        /\ BagOfSeq(order_results) = BagOfSeq(data)
        /\ \A n, m \in DOMAIN order_results :
              n < m => ComesBefore(order_results[n], order_results[m])

\* two keys, one descending, two rows tied on both, and the list reordered
C6_Witness ==
    /\ order_status = "ok"
    /\ Len(orders) = 2
    /\ orders[1][1] # orders[2][1]
    /\ orders[1][2] = "DESC"
    /\ order_results # data
    /\ \E n, m \in DOMAIN data : n # m /\ TiedOnEveryKey(data[n], data[m])

====
